---- MODULE Spec2Model ----
(***************************************************************************)
(* A model of scripts/token_estimation.py: the lorem-ipsum text generator, *)
(* the provider token counters, the statistics summarizer, the benchmark   *)
(* runner and main.                                                        *)
(*                                                                         *)
(* Four specifications share the module:                                   *)
(*   SpecGen  one call of generate_lorem_text_by_chars, one loop pass per  *)
(*            step, for every positive target and every sequence of draws  *)
(*   SpecSum  one call of summarize_counts on a drawn counts list          *)
(*   SpecEnc  one call of get_openai_encoder_for_model, one lookup per     *)
(*            step, for every combination of failing tiktoken lookups      *)
(*   Spec     main: run_benchmark, print_results_table, write_results_csv  *)
(*                                                                         *)
(* Strings that the code indexes or slices are sequences of one-character  *)
(* strings.  A Python exception is a value [kind |-> "raise", exc |-> ..]  *)
(* that the caller propagates, as an uncaught exception does.              *)
(***************************************************************************)
EXTENDS Integers, Sequences, FiniteSets, TLC

VARIABLES
    \* SpecGen: generate_lorem_text_by_chars(target_chars, rng)
    g_pc,               \* "loop" | "returned" | "idle"
    g_target,           \* target_chars
    g_words,            \* the local list words
    g_drawn,            \* the corpus indices rng.choice has returned, in order
    g_ret,              \* the returned string (empty until the call returns)
    \* SpecSum: summarize_counts(size_label, provider, model, counts, chars)
    s_pc,               \* "call" | "done" | "idle"
    s_counts,           \* counts
    s_chars,            \* chars
    s_ret,              \* the SampleStats returned, or the exception raised
    \* SpecEnc: get_openai_encoder_for_model(model)
    e_pc,               \* "try_model" | "try_o200k" | "try_cl100k" | "done" | "idle"
    e_model,            \* model
    e_fail,             \* the tiktoken lookups that raise in this environment
    e_tried,            \* the lookups made so far, in order
    e_ret,              \* the encoding returned, or the exception raised
    \* Spec: main(argv)
    sizes,              \* args.sizes
    trials,             \* args.trials
    openai_models,      \* args.openai_models
    anthropic_models,   \* args.anthropic_models
    api_key,            \* args.anthropic_api_key
    env_key,            \* os.environ.get("ANTHROPIC_API_KEY")
    sdk,                \* anthropic is not None
    pc,                 \* position in main / run_benchmark
    si,                 \* index into sizes of the size being processed
    mi,                 \* index of the next model of the current provider loop
    texts,              \* the local list texts of the current size
    words,              \* the local list words of the text being generated
    results,            \* the local list results
    trace,              \* per record of results: the texts and counts it came from
    counter,            \* anthropic_counter: "unbound" | "live" | "approx"
    rngDraws,           \* how many times rng has been advanced
    liveCalls,          \* how many client.messages.count_tokens calls were made
    liveOks,            \* how many of them returned a count
    clientKey,          \* the api_key the live client was constructed with
    exc,                \* the exception that ended the run, or None
    displayed,          \* print_results_table has printed the table
    csvState            \* "none" | "attempted" | "written"

genVars == <<g_pc, g_target, g_words, g_drawn, g_ret>>
sumVars == <<s_pc, s_counts, s_chars, s_ret>>
encVars == <<e_pc, e_model, e_fail, e_tried, e_ret>>
inputVars == <<sizes, trials, openai_models, anthropic_models, api_key, env_key, sdk>>
runVars == <<pc, si, mi, texts, words, results, trace, counter, clientKey,
             rngDraws, liveCalls, liveOks, exc, displayed, csvState>>
vars == <<genVars, sumVars, encVars, inputVars, runVars>>

None == "None"

Max(a, b) == IF a >= b THEN a ELSE b
Min(a, b) == IF a <= b THEN a ELSE b

Ok(v) == [kind |-> "ok", value |-> v]
Raise(e) == [kind |-> "raise", exc |-> e]

(***************************************************************************)
(* The corpus, lines 46-116.                                               *)
(***************************************************************************)
LOREM_WORDS ==
    <<
       <<"l","o","r","e","m">>,  \* 1 lorem
       <<"i","p","s","u","m">>,  \* 2 ipsum
       <<"d","o","l","o","r">>,  \* 3 dolor
       <<"s","i","t">>,  \* 4 sit
       <<"a","m","e","t">>,  \* 5 amet
       <<"c","o","n","s","e","c","t","e","t","u","r">>,  \* 6 consectetur
       <<"a","d","i","p","i","s","c","i","n","g">>,  \* 7 adipiscing
       <<"e","l","i","t">>,  \* 8 elit
       <<"s","e","d">>,  \* 9 sed
       <<"d","o">>,  \* 10 do
       <<"e","i","u","s","m","o","d">>,  \* 11 eiusmod
       <<"t","e","m","p","o","r">>,  \* 12 tempor
       <<"i","n","c","i","d","i","d","u","n","t">>,  \* 13 incididunt
       <<"u","t">>,  \* 14 ut
       <<"l","a","b","o","r","e">>,  \* 15 labore
       <<"e","t">>,  \* 16 et
       <<"d","o","l","o","r","e">>,  \* 17 dolore
       <<"m","a","g","n","a">>,  \* 18 magna
       <<"a","l","i","q","u","a">>,  \* 19 aliqua
       <<"u","t">>,  \* 20 ut
       <<"e","n","i","m">>,  \* 21 enim
       <<"a","d">>,  \* 22 ad
       <<"m","i","n","i","m">>,  \* 23 minim
       <<"v","e","n","i","a","m">>,  \* 24 veniam
       <<"q","u","i","s">>,  \* 25 quis
       <<"n","o","s","t","r","u","d">>,  \* 26 nostrud
       <<"e","x","e","r","c","i","t","a","t","i","o","n">>,  \* 27 exercitation
       <<"u","l","l","a","m","c","o">>,  \* 28 ullamco
       <<"l","a","b","o","r","i","s">>,  \* 29 laboris
       <<"n","i","s","i">>,  \* 30 nisi
       <<"u","t">>,  \* 31 ut
       <<"a","l","i","q","u","i","p">>,  \* 32 aliquip
       <<"e","x">>,  \* 33 ex
       <<"e","a">>,  \* 34 ea
       <<"c","o","m","m","o","d","o">>,  \* 35 commodo
       <<"c","o","n","s","e","q","u","a","t">>,  \* 36 consequat
       <<"d","u","i","s">>,  \* 37 duis
       <<"a","u","t","e">>,  \* 38 aute
       <<"i","r","u","r","e">>,  \* 39 irure
       <<"d","o","l","o","r">>,  \* 40 dolor
       <<"i","n">>,  \* 41 in
       <<"r","e","p","r","e","h","e","n","d","e","r","i","t">>,  \* 42 reprehenderit
       <<"i","n">>,  \* 43 in
       <<"v","o","l","u","p","t","a","t","e">>,  \* 44 voluptate
       <<"v","e","l","i","t">>,  \* 45 velit
       <<"e","s","s","e">>,  \* 46 esse
       <<"c","i","l","l","u","m">>,  \* 47 cillum
       <<"d","o","l","o","r","e">>,  \* 48 dolore
       <<"e","u">>,  \* 49 eu
       <<"f","u","g","i","a","t">>,  \* 50 fugiat
       <<"n","u","l","l","a">>,  \* 51 nulla
       <<"p","a","r","i","a","t","u","r">>,  \* 52 pariatur
       <<"e","x","c","e","p","t","e","u","r">>,  \* 53 excepteur
       <<"s","i","n","t">>,  \* 54 sint
       <<"o","c","c","a","e","c","a","t">>,  \* 55 occaecat
       <<"c","u","p","i","d","a","t","a","t">>,  \* 56 cupidatat
       <<"n","o","n">>,  \* 57 non
       <<"p","r","o","i","d","e","n","t">>,  \* 58 proident
       <<"s","u","n","t">>,  \* 59 sunt
       <<"i","n">>,  \* 60 in
       <<"c","u","l","p","a">>,  \* 61 culpa
       <<"q","u","i">>,  \* 62 qui
       <<"o","f","f","i","c","i","a">>,  \* 63 officia
       <<"d","e","s","e","r","u","n","t">>,  \* 64 deserunt
       <<"m","o","l","l","i","t">>,  \* 65 mollit
       <<"a","n","i","m">>,  \* 66 anim
       <<"i","d">>,  \* 67 id
       <<"e","s","t">>,  \* 68 est
       <<"l","a","b","o","r","u","m">>  \* 69 laborum
    >>

(***************************************************************************)
(* generate_lorem_text_by_chars, lines 132-141.                            *)
(***************************************************************************)
\* " ".join(words)
RECURSIVE JoinWords(_)
JoinWords(ws) ==
    IF ws = <<>> THEN <<>>
    ELSE IF Len(ws) = 1 THEN ws[1]
    ELSE JoinWords(SubSeq(ws, 1, Len(ws) - 1)) \o <<" ">> \o ws[Len(ws)]

\* a slice that forgets the stop index
SliceWhole(text, stop) == text

\* text[:stop], with Python's reading of a negative stop
SliceTo(text, stop) ==
    IF stop >= 0 THEN SubSeq(text, 1, Min(stop, Len(text)))
    ELSE SubSeq(text, 1, Max(0, Len(text) + stop))

\* One pass of the while loop with rng.choice returning LOREM_WORDS[i]:
\* append, join, compare, and return the slice when long enough.
LoopPass(ws, i, target_chars) ==
    LET ws2 == Append(ws, LOREM_WORDS[i])
        text == JoinWords(ws2)
    IN  [words |-> ws2,
         returns |-> Len(text) >= target_chars,
         value |-> SliceTo(text, target_chars)]

\* Bounds of SpecGen: the targets tried and the corpus words rng may draw
\* (one word of each length class that matters below MaxTarget).
MaxTarget == 9
GenDraws == {1, 4, 6, 10}       \* lorem, sit, consectetur, do

InitGenIdle ==
    /\ g_pc = "idle" /\ g_target = 0 /\ g_words = <<>> /\ g_drawn = <<>>
    /\ g_ret = <<>>

GenLoopPass(i) ==
    /\ g_pc = "loop"
    /\ LET p == LoopPass(g_words, i, g_target)
       IN  /\ g_words' = p.words
           /\ g_drawn' = Append(g_drawn, i)
           /\ g_pc' = IF p.returns THEN "returned" ELSE "loop"
           /\ g_ret' = IF p.returns THEN p.value ELSE g_ret
    /\ UNCHANGED <<g_target, sumVars, encVars, inputVars, runVars>>

(***************************************************************************)
(* tiktoken, as the code uses it (lines 147, 151, 153, 158, 172, 186).     *)
(* An encoding is known by its name.  `fail` is the set of lookups that    *)
(* raise in the environment of the call.                                   *)
(***************************************************************************)
Lookups == {"encoding_for_model", "o200k_base", "cl100k_base"}

\* tiktoken's model table, for the identifiers the model uses
ModelEncoding(model) ==
    CASE model \in {"gpt-4o", "gpt-4o-mini"} -> "o200k_base"
      [] model \in {"gpt-4-turbo", "gpt-3.5-turbo"} -> "cl100k_base"
      [] OTHER -> None

\* tiktoken.get_encoding(name)
get_encoding(name, fail) ==
    IF name \in fail THEN Raise("EncodingLoadError") ELSE Ok(name)

\* tiktoken.encoding_for_model(model): KeyError for a model it has no
\* mapping for, else get_encoding of the mapped name
encoding_for_model(model, fail) ==
    IF ModelEncoding(model) = None \/ "encoding_for_model" \in fail
    THEN Raise("KeyError")
    ELSE get_encoding(ModelEncoding(model), fail)

\* How many characters one token of the encoding covers at most: the
\* tokenizers are opaque, and stand-ins that differ per encoding and depend
\* on the text's content are enough for the counters to be told apart.
PieceLen(enc) == IF enc = "o200k_base" THEN 4 ELSE 3

\* len(enc.encode(text)): a token ends before a space and after PieceLen
\* characters.
RECURSIVE TokScan(_, _, _, _)
TokScan(text, i, cur, piece) ==
    IF i > Len(text) THEN (IF cur > 0 THEN 1 ELSE 0)
    ELSE IF cur > 0 /\ (text[i] = " " \/ cur = piece)
         THEN 1 + TokScan(text, i + 1, 1, piece)
         ELSE TokScan(text, i + 1, cur + 1, piece)

TokenCount(enc, text) == TokScan(text, 1, 0, PieceLen(enc))

(***************************************************************************)
(* get_openai_encoder_for_model, lines 144-153.  One lookup per EncStep;   *)
(* a resolution state is [pc, tried, ret].                                 *)
(***************************************************************************)
EncStart == [pc |-> "try_model", tried |-> <<>>, ret |-> None]

\* the inner handler missing: the o200k_base failure is not caught
EncStepNoTerminal(st, model, fail) ==
    IF st.pc = "try_model"
    THEN LET r == encoding_for_model(model, fail)
         IN  [pc |-> IF r.kind = "ok" THEN "done" ELSE "try_o200k",
              tried |-> Append(st.tried, "encoding_for_model"),
              ret |-> IF r.kind = "ok" THEN r ELSE None]
    ELSE [pc |-> "done",
          tried |-> Append(st.tried, "o200k_base"),
          ret |-> get_encoding("o200k_base", fail)]

EncStep(st, model, fail) ==
    CASE st.pc = "try_model" ->
            \* line 147
            LET r == encoding_for_model(model, fail)
            IN  [pc |-> IF r.kind = "ok" THEN "done" ELSE "try_o200k",
                 tried |-> Append(st.tried, "encoding_for_model"),
                 ret |-> IF r.kind = "ok" THEN r ELSE None]
      [] st.pc = "try_o200k" ->
            \* line 151
            LET r == get_encoding("o200k_base", fail)
            IN  [pc |-> IF r.kind = "ok" THEN "done" ELSE "try_cl100k",
                 tried |-> Append(st.tried, "o200k_base"),
                 ret |-> IF r.kind = "ok" THEN r ELSE None]
      [] st.pc = "try_cl100k" ->
            \* line 153: not inside any try, its exception leaves the function
            [pc |-> "done",
             tried |-> Append(st.tried, "cl100k_base"),
             ret |-> get_encoding("cl100k_base", fail)]
      [] OTHER -> st

RECURSIVE EncRun(_, _, _)
EncRun(st, model, fail) ==
    IF st.pc = "done" THEN st ELSE EncRun(EncStep(st, model, fail), model, fail)

\* the whole call: Ok(encoding) or Raise(..)
get_openai_encoder_for_model(model, fail) == EncRun(EncStart, model, fail).ret

\* count_tokens_openai, lines 156-158
count_tokens_openai(model, text, fail) ==
    LET enc == get_openai_encoder_for_model(model, fail)
    IN  IF enc.kind = "raise" THEN enc ELSE Ok(TokenCount(enc.value, text))

\* Bounds of SpecEnc
EncModels == {"gpt-4o", "gpt-4o-mini", "gpt-4-turbo", "gpt-3.5-turbo", "unknown-model"}

InitEncIdle ==
    /\ e_pc = "idle" /\ e_model = None /\ e_fail = {} /\ e_tried = <<>>
    /\ e_ret = None

EncLookup ==
    /\ e_pc \in {"try_model", "try_o200k", "try_cl100k"}
    /\ LET st == EncStep([pc |-> e_pc, tried |-> e_tried, ret |-> e_ret],
                         e_model, e_fail)
       IN  /\ e_pc' = st.pc
           /\ e_tried' = st.tried
           /\ e_ret' = st.ret
    /\ UNCHANGED <<e_model, e_fail, genVars, sumVars, inputVars, runVars>>

(***************************************************************************)
(* get_anthropic_counter, lines 161-191.                                   *)
(***************************************************************************)
\* Python's truth value of an Optional[str]
Truthy(s) == s # None /\ s # ""

\* api_key or env_key
EffectiveKey(arg_key, environ_key) ==
    IF Truthy(arg_key) THEN arg_key ELSE environ_key

\* the live variant bound whenever the SDK is importable
get_anthropic_counter_no_key_check(arg_key, environ_key, sdk_present, fail) ==
    LET approx_enc == get_encoding("cl100k_base", fail)
    IN  IF approx_enc.kind = "raise" THEN approx_enc
        ELSE IF sdk_present
             THEN Ok([variant |-> "live", key |-> EffectiveKey(arg_key, environ_key)])
             ELSE Ok([variant |-> "approx", key |-> None])

\* Which closure is returned, and the key its client was built with; or the
\* exception of the cl100k_base lookup (lines 172 and 186, outside any try).
get_anthropic_counter(arg_key, environ_key, sdk_present, fail) ==
    LET effective_key == EffectiveKey(arg_key, environ_key)
        approx_enc == get_encoding("cl100k_base", fail)
    IN  IF approx_enc.kind = "raise" THEN approx_enc
        ELSE IF sdk_present /\ Truthy(effective_key)
             THEN Ok([variant |-> "live", key |-> effective_key])   \* 170
             ELSE Ok([variant |-> "approx", key |-> None])

\* _count_approx, lines 188-189
count_approx(text) == Ok(TokenCount("cl100k_base", text))

\* What one client.messages.count_tokens call can do: raise (network, auth),
\* return a response whose input_tokens is missing or not a number, or return
\* a response with a count.
LiveTokenCounts == {101}        \* a count no text of the model approximates to
LiveFailures == {[kind |-> "request_raises"], [kind |-> "malformed_response"]}
LiveResponses ==
    LiveFailures \cup {[kind |-> "tokens", n |-> n] : n \in LiveTokenCounts}

\* the handler missing: a failed call raises to the caller
count_live_propagates(resp, text) ==
    IF resp.kind = "tokens" THEN Ok(resp.n) ELSE Raise("APIError")

\* _count_live, lines 174-182: any Exception of the request or of
\* int(resp.input_tokens) is caught and the cl100k_base length returned
count_live(resp, text) ==
    IF resp.kind = "tokens" THEN Ok(resp.n) ELSE count_approx(text)

(***************************************************************************)
(* summarize_counts, lines 194-218.  A float that need not be an integer   *)
(* is a fraction [num, den]; stdev_tokens holds its square.                *)
(***************************************************************************)
RECURSIVE SumSeq(_)
SumSeq(s) == IF s = <<>> THEN 0 ELSE s[1] + SumSeq(Tail(s))

RECURSIVE SumSquares(_)
SumSquares(s) == IF s = <<>> THEN 0 ELSE s[1] * s[1] + SumSquares(Tail(s))

RECURSIVE InsertSorted(_, _)
InsertSorted(x, s) ==
    IF s = <<>> THEN <<x>>
    ELSE IF x <= s[1] THEN <<x>> \o s
    ELSE <<s[1]>> \o InsertSorted(x, Tail(s))

\* sorted(counts)
RECURSIVE sorted(_)
sorted(s) == IF s = <<>> THEN <<>> ELSE InsertSorted(s[1], sorted(Tail(s)))

\* seq[k] of Python: 0-based, negative k from the end, IndexError outside
Subscript(s, k) ==
    IF k >= 0 /\ k < Len(s) THEN Ok(s[k + 1])
    ELSE IF k < 0 /\ -k <= Len(s) THEN Ok(s[Len(s) + k + 1])
    ELSE Raise("IndexError")

\* statistics.fmean(counts)
fmean(counts) ==
    IF counts = <<>> THEN Raise("StatisticsError")
    ELSE Ok([num |-> SumSeq(counts), den |-> Len(counts)])

\* len(counts_sorted) // 2
P50Index(n) == n \div 2

\* math.ceil(0.95 * n).  The double 0.95 is 19/20 less about 4.4e-17, and
\* the rounded product is never above 19n/20, so the ceiling is that of the
\* exact product for every n a run can have.
Ceil95(n) == (19 * n + 19) \div 20

\* the index of the maximum
P95IndexLast(n) == Max(0, n - 1)

\* max(0, math.ceil(0.95 * len(counts_sorted)) - 1)
P95Index(n) == Max(0, Ceil95(n) - 1)

\* statistics.pstdev(counts) if len(counts) > 1 else 0.0, squared
StdevSquared(counts) ==
    LET n == Len(counts)
    IN  IF n > 1
        THEN [num |-> n * SumSquares(counts) - SumSeq(counts) * SumSeq(counts),
              den |-> n * n]
        ELSE [num |-> 0, den |-> 1]

\* f"{chars} chars"
SizeLabel(chars) == <<chars, " chars">>

\* the dataclass SampleStats, lines 119-129
SampleStats(label, model, provider, n, mean, p50, p95, stdev_sq, per_1k) ==
    [size_label |-> label, model |-> model, provider |-> provider,
     num_trials |-> n, mean_tokens |-> mean,
     p50_tokens |-> p50, p95_tokens |-> p95, stdev_tokens_sq |-> stdev_sq,
     mean_tokens_per_1k_chars |-> per_1k]

\* an empty sample answered with a record of zeros instead of an error
summarize_counts_empty_record(size_label, provider, model, counts, chars) ==
    LET n == Len(counts)
        zero == [num |-> 0, den |-> 1]
    IN  IF n = 0
        THEN Ok(SampleStats(size_label, model, provider, 0, zero, 0, 0, zero, zero))
        ELSE IF chars = 0 THEN Raise("ZeroDivisionError")
        ELSE Ok(SampleStats(size_label, model, provider, n,
                            [num |-> SumSeq(counts), den |-> n],
                            sorted(counts)[P50Index(n) + 1],
                            sorted(counts)[P95Index(n) + 1],
                            StdevSquared(counts),
                            [num |-> 1000 * SumSeq(counts), den |-> n * chars]))

\* Ok(SampleStats) or the first exception, in statement order
summarize_counts(size_label, provider, model, counts, chars) ==
    LET counts_sorted == sorted(counts)
        mean_tokens == fmean(counts)                                   \* 202
        p50 == Subscript(counts_sorted, P50Index(Len(counts_sorted)))  \* 203
        p95 == Subscript(counts_sorted, P95Index(Len(counts_sorted)))  \* 204-205
    IN  IF mean_tokens.kind = "raise" THEN mean_tokens
        ELSE IF p50.kind = "raise" THEN p50
        ELSE IF p95.kind = "raise" THEN p95
        ELSE IF chars = 0 THEN Raise("ZeroDivisionError")              \* 207
        ELSE Ok(SampleStats(size_label, model, provider, Len(counts),
                            mean_tokens.value, p50.value, p95.value,
                            StdevSquared(counts),
                            [num |-> 1000 * mean_tokens.value.num,
                             den |-> mean_tokens.value.den * chars]))

\* Bounds of SpecSum: every counts list of up to MaxSmallCounts values out of
\* CountValues, and, for each length up to MaxCounts, the descending list
\* 10n, ..., 20, 10 in each of its rotations (unsorted, all values distinct).
MaxSmallCounts == 4
MaxCounts == 21
CountValues == {10, 20, 30, 40}
CharValues == {-100, 0, 100, 1000}

SmallCounts ==
    UNION {[1..n -> CountValues] : n \in 0..MaxSmallCounts}

Rotation(n, r) == [i \in 1..n |-> 10 * (((n - i + r) % n) + 1)]

LongCounts == {Rotation(n, r) : n \in 1..MaxCounts, r \in {0, 1, 7}}

InitSumIdle ==
    /\ s_pc = "idle" /\ s_counts = <<>> /\ s_chars = 0 /\ s_ret = None

SumCall ==
    /\ s_pc = "call"
    /\ s_ret' = summarize_counts(SizeLabel(s_chars), "openai", "gpt-4o",
                                 s_counts, s_chars)
    /\ s_pc' = "done"
    /\ UNCHANGED <<s_counts, s_chars, genVars, encVars, inputVars, runVars>>

(***************************************************************************)
(* run_benchmark, lines 221-251, and main, lines 376-390.                  *)
(***************************************************************************)
\* Bounds of Spec: the invocations tried.  The lists are those parse_args can
\* produce and the empty ones a direct caller of run_benchmark can pass.
MaxTrials == 2
MaxLiveOk == 1                  \* live calls that return a count, per run
RunDraws == {3, 10}             \* rng draws dolor or do

SizeLists == {<<>>, <<3>>, <<3, 2>>, <<0>>, <<-1>>, <<2, 0>>}
TrialValues == -1..MaxTrials
OpenAIModelLists == {<<>>, <<"gpt-4o">>, <<"unknown-model", "gpt-4-turbo">>}
AnthropicModelLists ==
    {<<>>, <<"claude-3-5-haiku-20241022">>,
     <<"claude-3-5-sonnet-20240620", "claude-3-5-haiku-20241022">>}
ArgKeys == {None, "", "sk-arg"}
EnvKeys == {None, "", "sk-env"}
CsvArgs == {None, "out.csv"}

\* tiktoken once the run has loaded cl100k_base: the base encodings load, a
\* model without a mapping still has none
RunFail == {}

InitRunIdle ==
    /\ sizes = <<>> /\ trials = 0 /\ openai_models = <<>>
    /\ anthropic_models = <<>> /\ api_key = None /\ env_key = None
    /\ sdk = FALSE
    /\ pc = "idle" /\ si = 0 /\ mi = 0 /\ texts = <<>> /\ words = <<>>
    /\ results = <<>> /\ trace = <<>> /\ counter = "unbound"
    /\ clientKey = None /\ rngDraws = 0 /\ liveCalls = 0 /\ liveOks = 0
    /\ exc = None /\ displayed = FALSE /\ csvState = "none"

\* [f(t) for t in texts], given each f(t): the first exception, or the list
ListComp(rs) ==
    IF \E i \in 1..Len(rs) : rs[i].kind = "raise"
    THEN rs[CHOOSE i \in 1..Len(rs) :
                /\ rs[i].kind = "raise"
                /\ \A j \in 1..(i - 1) : rs[j].kind = "ok"]
    ELSE Ok([i \in 1..Len(rs) |-> rs[i].value])

\* range(trials) with one pass too few
TextsCompleteOneShort(ts, n) == Len(ts) >= n - 1

\* line 237: the comprehension over range(trials) has made all its texts
TextsComplete(ts, n) == Len(ts) >= n

\* line 241
CountsOpenAI(model, ts) ==
    ListComp([i \in 1..Len(ts) |-> count_tokens_openai(model, ts[i], RunFail)])

\* line 246: anthropic_counter(model, t) for t in texts; resps[i] is what the
\* i-th live call does
CountsAnthropic(variant, resps, ts) ==
    ListComp([i \in 1..Len(ts) |->
                IF variant = "live" THEN count_live(resps[i], ts[i])
                ELSE count_approx(ts[i])])

\* results.insert(0, ..)
PrependRecord(rs, r) == <<r>> \o rs

\* results.append(..), lines 242 and 247
AppendRecord(rs, r) == Append(rs, r)

\* an exception leaves run_benchmark and main
Abort(e) ==
    /\ pc' = "raised"
    /\ exc' = e

\* lines 229-232
Bind ==
    /\ pc = "bind"
    /\ \E fail \in {{}, {"cl100k_base"}} :
        LET c == get_anthropic_counter(api_key, env_key, sdk, fail)
        IN  IF c.kind = "raise"
            THEN /\ Abort(c.exc)
                 /\ UNCHANGED <<counter, clientKey>>
            ELSE /\ counter' = c.value.variant
                 /\ clientKey' = c.value.key
                 /\ pc' = "sizes"
                 /\ UNCHANGED exc
    /\ UNCHANGED <<si, mi, texts, words, results, trace, rngDraws, liveCalls,
                   liveOks, displayed, csvState>>
    /\ UNCHANGED <<genVars, sumVars, encVars, inputVars>>

\* line 234: the next size, or line 251
SizeNext ==
    /\ pc = "sizes"
    /\ IF si < Len(sizes)
       THEN /\ si' = si + 1
            /\ texts' = <<>>
            /\ words' = <<>>
            /\ pc' = "gen"
       ELSE /\ pc' = "returned"
            /\ UNCHANGED <<si, texts, words>>
    /\ UNCHANGED <<mi, results, trace, counter, clientKey, rngDraws, liveCalls,
                   liveOks, exc, displayed, csvState>>
    /\ UNCHANGED <<genVars, sumVars, encVars, inputVars>>

\* line 237: one pass of the generator's loop for the text being made
GenDraw(i) ==
    /\ pc = "gen"
    /\ ~TextsComplete(texts, trials)
    /\ LET p == LoopPass(words, i, sizes[si])
       IN  /\ rngDraws' = rngDraws + 1
           /\ words' = IF p.returns THEN <<>> ELSE p.words
           /\ texts' = IF p.returns THEN Append(texts, p.value) ELSE texts
    /\ UNCHANGED <<pc, si, mi, results, trace, counter, clientKey, liveCalls,
                   liveOks, exc, displayed, csvState>>
    /\ UNCHANGED <<genVars, sumVars, encVars, inputVars>>

\* line 237 done, line 240 next
GenDone ==
    /\ pc = "gen"
    /\ TextsComplete(texts, trials)
    /\ pc' = "openai"
    /\ mi' = 1
    /\ UNCHANGED <<si, texts, words, results, trace, counter, clientKey,
                   rngDraws, liveCalls, liveOks, exc, displayed, csvState>>
    /\ UNCHANGED <<genVars, sumVars, encVars, inputVars>>

\* what one model's pass appends, or the exception that ends the run
Record(provider, model, counts, fellBack) ==
    IF counts.kind = "raise" THEN counts
    ELSE LET s == summarize_counts(SizeLabel(sizes[si]), provider, model,
                                   counts.value, sizes[si])
         IN  IF s.kind = "raise" THEN s
             ELSE Ok([stats |-> s.value,
                      sample |-> [si |-> si, texts |-> texts,
                                  counts |-> counts.value,
                                  fellBack |-> fellBack]])

\* lines 240-242, one model
CountOpenAI ==
    /\ pc = "openai"
    /\ mi <= Len(openai_models)
    /\ LET r == Record("openai", openai_models[mi],
                       CountsOpenAI(openai_models[mi], texts), {})
       IN  IF r.kind = "raise"
           THEN /\ Abort(r.exc)
                /\ UNCHANGED <<mi, results, trace>>
           ELSE /\ results' = AppendRecord(results, r.value.stats)
                /\ trace' = Append(trace, r.value.sample)
                /\ mi' = mi + 1
                /\ UNCHANGED <<pc, exc>>
    /\ UNCHANGED <<si, texts, words, counter, clientKey, rngDraws, liveCalls,
                   liveOks, displayed, csvState>>
    /\ UNCHANGED <<genVars, sumVars, encVars, inputVars>>

\* line 240 exhausted, line 245 next
OpenAIDone ==
    /\ pc = "openai"
    /\ mi > Len(openai_models)
    /\ pc' = "anthropic"
    /\ mi' = 1
    /\ UNCHANGED <<si, texts, words, results, trace, counter, clientKey,
                   rngDraws, liveCalls, liveOks, exc, displayed, csvState>>
    /\ UNCHANGED <<genVars, sumVars, encVars, inputVars>>

\* what the live calls of one model's pass may do: at most MaxLiveOk calls of
\* a run return a count
LiveRuns(n) ==
    {resps \in [1..n -> LiveResponses] :
        liveOks + Cardinality({i \in 1..n : resps[i].kind = "tokens"}) <= MaxLiveOk}

\* lines 245-249, one model
CountAnthropic ==
    /\ pc = "anthropic"
    /\ mi <= Len(anthropic_models)
    /\ \E resps \in IF counter = "live" THEN LiveRuns(Len(texts))
                    ELSE {[i \in 1..Len(texts) |-> [kind |-> "no_call"]]} :
        LET oks == {i \in 1..Len(texts) : resps[i].kind = "tokens"}
            fellBack == {i \in 1..Len(texts) : resps[i] \in LiveFailures}
            r == Record("anthropic", anthropic_models[mi],
                        CountsAnthropic(counter, resps, texts), fellBack)
        IN  /\ liveCalls' = IF counter = "live" THEN liveCalls + Len(texts)
                            ELSE liveCalls
            /\ liveOks' = liveOks + Cardinality(oks)
            /\ IF r.kind = "raise"
               THEN /\ Abort(r.exc)
                    /\ UNCHANGED <<mi, results, trace>>
               ELSE /\ results' = AppendRecord(results, r.value.stats)
                    /\ trace' = Append(trace, r.value.sample)
                    /\ mi' = mi + 1
                    /\ UNCHANGED <<pc, exc>>
    /\ UNCHANGED <<si, texts, words, counter, clientKey, rngDraws, displayed,
                   csvState>>
    /\ UNCHANGED <<genVars, sumVars, encVars, inputVars>>

\* line 245 exhausted, back to line 234
AnthropicDone ==
    /\ pc = "anthropic"
    /\ mi > Len(anthropic_models)
    /\ pc' = "sizes"
    /\ UNCHANGED <<si, mi, texts, words, results, trace, counter, clientKey,
                   rngDraws, liveCalls, liveOks, exc, displayed, csvState>>
    /\ UNCHANGED <<genVars, sumVars, encVars, inputVars>>

\* line 386
PrintTable ==
    /\ pc = "returned"
    /\ displayed' = TRUE
    /\ pc' = "printed"
    /\ UNCHANGED <<si, mi, texts, words, results, trace, counter, clientKey,
                   rngDraws, liveCalls, liveOks, exc, csvState>>
    /\ UNCHANGED <<genVars, sumVars, encVars, inputVars>>

\* lines 387-390.  args.csv is read here for the first time, so it is drawn
\* here; open() or a write may raise OSError, which nothing catches.
ExportAndExit ==
    /\ pc = "printed"
    /\ \E csv \in CsvArgs, writes \in BOOLEAN :
        IF ~Truthy(csv)
        THEN /\ pc' = "exit0"
             /\ UNCHANGED <<csvState, exc>>
        ELSE IF writes
        THEN /\ csvState' = "written"
             /\ pc' = "exit0"
             /\ UNCHANGED exc
        ELSE /\ csvState' = "attempted"
             /\ Abort("OSError")
    /\ UNCHANGED <<si, mi, texts, words, results, trace, counter, clientKey,
                   rngDraws, liveCalls, liveOks, displayed>>
    /\ UNCHANGED <<genVars, sumVars, encVars, inputVars>>

(***************************************************************************)
(* The specifications.                                                     *)
(***************************************************************************)
InitGen ==
    /\ g_pc = "loop" /\ g_target \in 1..MaxTarget /\ g_words = <<>>
    /\ g_drawn = <<>> /\ g_ret = <<>>
    /\ InitSumIdle /\ InitEncIdle /\ InitRunIdle

NextGen == \E i \in GenDraws : GenLoopPass(i)

\* the loop is the only thing the call does: it is never starved
SpecGen == InitGen /\ [][NextGen]_vars /\ WF_vars(NextGen)

InitSum ==
    /\ s_pc = "call" /\ s_counts \in SmallCounts \cup LongCounts
    /\ s_chars \in CharValues /\ s_ret = None
    /\ InitGenIdle /\ InitEncIdle /\ InitRunIdle

NextSum == SumCall

SpecSum == InitSum /\ [][NextSum]_vars

InitEnc ==
    /\ e_pc = "try_model" /\ e_model \in EncModels /\ e_fail \in SUBSET Lookups
    /\ e_tried = <<>> /\ e_ret = None
    /\ InitGenIdle /\ InitSumIdle /\ InitRunIdle

NextEnc == EncLookup

SpecEnc == InitEnc /\ [][NextEnc]_vars

Init ==
    /\ sizes \in SizeLists
    /\ trials \in TrialValues
    /\ openai_models \in OpenAIModelLists
    /\ anthropic_models \in AnthropicModelLists
    /\ api_key \in ArgKeys
    /\ env_key \in EnvKeys
    /\ sdk \in BOOLEAN
    /\ pc = "bind" /\ si = 0 /\ mi = 0 /\ texts = <<>> /\ words = <<>>
    /\ results = <<>> /\ trace = <<>> /\ counter = "unbound"
    /\ clientKey = None /\ rngDraws = 0 /\ liveCalls = 0 /\ liveOks = 0
    /\ exc = None /\ displayed = FALSE /\ csvState = "none"
    /\ InitGenIdle /\ InitSumIdle /\ InitEncIdle

Next ==
    \/ Bind
    \/ SizeNext
    \/ \E i \in RunDraws : GenDraw(i)
    \/ GenDone
    \/ CountOpenAI
    \/ OpenAIDone
    \/ CountAnthropic
    \/ AnthropicDone
    \/ PrintTable
    \/ ExportAndExit

Spec == Init /\ [][Next]_vars

(***************************************************************************)
(* The claims.                                                             *)
(***************************************************************************)
IsPrefix(p, s) == Len(p) <= Len(s) /\ \A i \in 1..Len(p) : p[i] = s[i]

DrawnWords == [k \in 1..Len(g_drawn) |-> LOREM_WORDS[g_drawn[k]]]

\* run_benchmark has returned (main may have gone on, or failed in the export)
RunReturned ==
    \/ pc \in {"returned", "printed", "exit0"}
    \/ pc = "raised" /\ csvState = "attempted"

\* the arguments meet the runner's contract: positive sizes, positive trials
ValidInput == trials > 0 /\ \A s \in 1..Len(sizes) : sizes[s] > 0

NumModels == Len(openai_models) + Len(anthropic_models)

\* the cl100k_base length of a text, which the approximate counter returns
ApproxLength(text) == TokenCount("cl100k_base", text)

\* C1: when the live variant is bound and no live call has returned a count,
\* every count of every provider-A sample is the cl100k_base length of its
\* text, no exception of a live call ends the run, and for arguments that
\* meet the runner's contract the run does not abort and returns a record for
\* every requested provider-A model of every size.
C1_LiveAlwaysFailingDegrades ==
    (counter = "live" /\ liveOks = 0) =>
        /\ \A k \in 1..Len(trace) :
              results[k].provider = "anthropic" =>
                  \A i \in 1..Len(trace[k].texts) :
                      trace[k].counts[i] = ApproxLength(trace[k].texts[i])
        /\ exc \in {None, "StatisticsError", "ZeroDivisionError", "OSError"}
        /\ ValidInput => (pc = "raised" => csvState = "attempted")
        /\ (ValidInput /\ RunReturned) =>
              \A s \in 1..Len(sizes), m \in 1..Len(anthropic_models) :
                  \E k \in 1..Len(results) :
                      /\ results[k].provider = "anthropic"
                      /\ results[k].model = anthropic_models[m]
                      /\ results[k].size_label = SizeLabel(sizes[s])
                      /\ trace[k].fellBack = 1..trials

C1_Witness ==
    /\ counter = "live" /\ liveOks = 0 /\ liveCalls >= 4
    /\ pc = "returned"
    /\ Len(anthropic_models) = 2
    /\ \E k \in 1..Len(trace) : trace[k].fellBack = {1, 2}

\* The enumeration C2 names: entry k is <<size, provider, model>>.
ExpectedOrder ==
    LET a == Len(openai_models)
        b == Len(anthropic_models)
    IN  [k \in 1..(Len(sizes) * (a + b)) |->
            LET s == ((k - 1) \div (a + b)) + 1
                j == ((k - 1) % (a + b)) + 1
            IN  IF j <= a THEN <<sizes[s], "openai", openai_models[j]>>
                ELSE <<sizes[s], "anthropic", anthropic_models[j - a]>>]

RecordKey(r) == <<r.size_label[1], r.provider, r.model>>

\* C2: the records run_benchmark returns are exactly, size by size in the
\* given order, one per provider-B model in the given order and then one per
\* provider-A model in the given order; while it runs, the records so far are
\* a prefix of that enumeration.
C2_OutputOrder ==
    /\ pc \notin {"idle"} =>
          IsPrefix([k \in 1..Len(results) |-> RecordKey(results[k])], ExpectedOrder)
    /\ RunReturned =>
          /\ Len(results) = Len(sizes) * NumModels
          /\ \A k \in 1..Len(results) :
                results[k].size_label = SizeLabel(ExpectedOrder[k][1])

C2_Witness ==
    /\ pc = "returned"
    /\ Len(sizes) = 2 /\ Len(openai_models) = 2 /\ Len(anthropic_models) = 2
    /\ Len(results) = 8

\* C3, as claimed: with a non-positive size or a non-positive trial count
\* (and a model requested) run_benchmark never returns summary records.
C3_InvalidInputNeverReturnsRecords ==
    (~ValidInput /\ NumModels > 0) => ~(RunReturned /\ results # <<>>)

\* C4: for a positive target the call returns (under weak fairness of the
\* loop), and what it returns has exactly target_chars characters and is a
\* prefix of the single-space join of the words drawn.
C4_GenerateExactLength ==
    /\ [](g_pc = "returned" =>
            /\ Len(g_ret) = g_target
            /\ IsPrefix(g_ret, JoinWords(DrawnWords)))
    /\ <>(g_pc = "returned")

\* the target is smaller than the first word drawn: that word, truncated
C4_Witness ==
    /\ g_pc = "returned"
    /\ g_drawn = <<6>>
    /\ g_target = 4
    /\ g_ret = <<"c", "o", "n", "s">>

\* C5: within a size, the trials texts all exist before counting starts and
\* every record of that size is computed from that same list: its sample has
\* trials counts, the i-th being the counter's count of the i-th text; and a
\* step taken while counting leaves the random source where it was (only
\* text generation advances it).
C5_SampleInv ==
    /\ pc \in {"openai", "anthropic"} => Len(texts) = Max(0, trials)
    /\ \A k \in 1..Len(trace) :
          /\ results[k].num_trials = trials
          /\ Len(trace[k].counts) = trials
          /\ Len(trace[k].texts) = trials
          /\ \A j \in 1..Len(trace) :
                trace[j].si = trace[k].si => trace[j].texts = trace[k].texts
          /\ \A i \in 1..Len(trace[k].texts) :
                IF results[k].provider = "openai"
                THEN \E enc \in {"o200k_base", "cl100k_base"} :
                        /\ enc = IF ModelEncoding(results[k].model) = None
                                 THEN "o200k_base"
                                 ELSE ModelEncoding(results[k].model)
                        /\ trace[k].counts[i] = TokenCount(enc, trace[k].texts[i])
                ELSE IF counter = "approx" \/ i \in trace[k].fellBack
                THEN trace[k].counts[i] = ApproxLength(trace[k].texts[i])
                ELSE \E r \in LiveResponses :
                        r.kind = "tokens" /\ trace[k].counts[i] = r.n

C5_SameTextsForEveryModel ==
    /\ []C5_SampleInv
    /\ [][ /\ pc \in {"openai", "anthropic"} => rngDraws' = rngDraws
           /\ rngDraws' # rngDraws => pc = "gen" /\ rngDraws' = rngDraws + 1 ]_vars

C5_Witness ==
    /\ pc = "returned" /\ trials = 2
    /\ \E k, j \in 1..Len(trace) :
          /\ results[k].provider = "openai" /\ results[j].provider = "anthropic"
          /\ trace[k].si = trace[j].si
          /\ trace[k].texts[1] # trace[k].texts[2]
          /\ trace[k].counts[1] # trace[k].counts[2]

\* C6: the variant is bound before the first size is processed and never
\* changes: it is the live one exactly when the SDK is importable and the
\* argument, or failing that the environment variable, is non-empty, and the
\* live client gets that key; with the approximate variant (no SDK, or no
\* credential) no live call is ever made.
KeyPresent == Truthy(api_key) \/ Truthy(env_key)

C6_BindingOnceAndStable ==
    /\ counter = "unbound" =>
          /\ pc \in {"idle", "bind", "raised"}
          /\ si = 0 /\ results = <<>> /\ liveCalls = 0
    /\ counter # "unbound" =>
          /\ counter = IF sdk /\ KeyPresent THEN "live" ELSE "approx"
          /\ clientKey = IF counter = "approx" THEN None
                         ELSE IF Truthy(api_key) THEN api_key ELSE env_key
    /\ (~sdk \/ ~KeyPresent) => (counter \in {"unbound", "approx"} /\ liveCalls = 0)

C6_Witness ==
    /\ sdk /\ ~KeyPresent /\ api_key = ""
    /\ counter = "approx"
    /\ pc = "returned"
    /\ \E k \in 1..Len(results) : results[k].provider = "anthropic"

\* C7, as claimed: the table is displayed before any export is attempted, and
\* once results are produced and displayed (for arguments that meet the
\* runner's contract) main does not end in an exception: a failed export
\* does not stand in the way of return 0.
C7_ExportIsBestEffort ==
    /\ csvState # "none" => displayed
    /\ (displayed /\ results # <<>> /\ ValidInput) => pc \in {"printed", "exit0"}

\* C8: summarize_counts on an empty counts list raises, whatever chars is; it
\* never returns a record of zero trials or with a zero denominator.
C8_EmptyCountsRejected ==
    s_pc = "done" =>
        /\ s_counts = <<>> => s_ret.kind = "raise"
        /\ s_ret.kind = "ok" =>
              /\ s_ret.value.num_trials >= 1
              /\ s_ret.value.mean_tokens.den # 0
              /\ s_ret.value.stdev_tokens_sq.den # 0
              /\ s_ret.value.mean_tokens_per_1k_chars.den # 0

C8_Witness ==
    /\ s_pc = "done" /\ s_counts = <<>> /\ s_chars = 100
    /\ s_ret = Raise("StatisticsError")

\* v is the element at 0-based index k of the ascending order of counts
AtSortedIndex(counts, k, v) ==
    /\ \E i \in 1..Len(counts) : counts[i] = v
    /\ Cardinality({i \in 1..Len(counts) : counts[i] < v}) <= k
    /\ k < Cardinality({i \in 1..Len(counts) : counts[i] <= v})

\* the least integer not below 0.95 * n
CeilOf95Percent(n) == CHOOSE m \in 0..n : 20 * m >= 19 * n /\ 20 * (m - 1) < 19 * n

\* C9: for a non-empty counts list of length n, p50 is the element at index
\* floor(n/2) and p95 the element at index max(0, ceil(0.95 n) - 1) of the
\* ascending order; both indices lie in 0..n-1; [10, 20, 30, 40] gives 30
\* and 40.
C9_PercentileSelection ==
    (s_pc = "done" /\ s_counts # <<>> /\ s_chars # 0) =>
        LET n == Len(s_counts)
            k50 == n \div 2
            k95 == Max(0, CeilOf95Percent(n) - 1)
        IN  /\ s_ret.kind = "ok"
            /\ k50 \in 0..(n - 1) /\ k95 \in 0..(n - 1)
            /\ AtSortedIndex(s_counts, k50, s_ret.value.p50_tokens)
            /\ AtSortedIndex(s_counts, k95, s_ret.value.p95_tokens)
            /\ s_counts = <<10, 20, 30, 40>> =>
                  s_ret.value.p50_tokens = 30 /\ s_ret.value.p95_tokens = 40

\* twenty counts: p95 is the second largest, not the largest
C9_Witness ==
    /\ s_pc = "done" /\ Len(s_counts) = 20 /\ s_counts[1] = 200
    /\ s_ret.kind = "ok"
    /\ s_ret.value.p95_tokens = 190 /\ s_ret.value.p50_tokens = 110

\* whether a lookup raises in the environment of the call
LookupFails(name) ==
    IF name = "encoding_for_model"
    THEN \/ "encoding_for_model" \in e_fail
         \/ ModelEncoding(e_model) = None
         \/ ModelEncoding(e_model) \in e_fail
    ELSE name \in e_fail

Candidates == <<"encoding_for_model", "o200k_base", "cl100k_base">>

\* the lookups are made in priority order, each only after all before it failed
TriedInOrder ==
    /\ IsPrefix(e_tried, Candidates)
    /\ \A k \in 1..(Len(e_tried) - 1) : LookupFails(e_tried[k])

\* C10, as claimed: whichever lookups fail, the call returns an encoding.
C10_NeverFails ==
    /\ e_pc # "idle" => TriedInOrder
    /\ e_pc = "done" => e_ret.kind = "ok"

\* C10, amended: the lookups are tried in priority order, each only after all
\* before it failed; the call returns the encoding of the first lookup that
\* does not fail, and raises exactly when all three fail.
C10_ReturnsFirstThatLoads ==
    /\ e_pc # "idle" => TriedInOrder
    /\ e_pc = "done" =>
          LET last == e_tried[Len(e_tried)]
          IN  /\ e_tried # <<>>
              /\ (e_ret.kind = "raise") <=> (\A k \in 1..3 : LookupFails(Candidates[k]))
              /\ e_ret.kind = "ok" =>
                    /\ ~LookupFails(last)
                    /\ e_ret.value = IF last = "encoding_for_model"
                                     THEN ModelEncoding(e_model) ELSE last
              /\ ~LookupFails("cl100k_base") => e_ret.kind = "ok"

\* the first two lookups failed and cl100k_base was returned
C10_Witness ==
    /\ e_pc = "done"
    /\ e_tried = Candidates
    /\ e_ret = Ok("cl100k_base")
    /\ e_model = "unknown-model"
====
